---- MODULE Spec2Model ----
(***************************************************************************)
(* pagefeed: a FastCGI program that watches web pages and serves, for each *)
(* page, an RSS feed with one entry describing the page's last change.     *)
(* The model follows src/src/main.rs: one row of the `pages` table, the    *)
(* clock, and the handler of a feed request (get_page, refresh_page,       *)
(* build_feed).                                                            *)
(***************************************************************************)
EXTENDS Integers, Sequences, FiniteSets, TLC

VARIABLES
    page,   \* the row of table `pages` for slug SLUG (struct Page, state part)
    cfg,    \* the configured columns of that row (check_interval, cooldown, delete_regex)
    now,    \* the clock: chrono::Utc::now() / current_timestamp
    last,   \* history: the most recent feed request (inputs, page before, outcome)
    prev,   \* history: the failure message of the most recent due refresh, if it failed
    good,   \* history: the content hash and identifier update_page_changed stored last
    ex,     \* extract.rs: the configuration and document given to extract, and its result
    txn,    \* concurrent feed requests: each request's transaction and position
    conc    \* history of the concurrent requests: fetches made, identifiers assigned

vars == <<page, cfg, now, last, prev, good, ex, txn, conc>>

----------------------------------------------------------------------------
\* Bounds of the model.

MaxTime == 3        \* the clock runs 0..MaxTime

----------------------------------------------------------------------------
\* Option<T>: None is the empty sequence, Some(x) the one-element sequence.

None == <<>>
Some(x) == <<x>>
IsSome(o) == o # <<>>
IsNone(o) == o = <<>>
Unwrap(o) == o[1]

Max(a, b) == IF a >= b THEN a ELSE b
Min(a, b) == IF a <= b THEN a ELSE b

----------------------------------------------------------------------------
\* The configured page and the inputs of a request.

SLUG == "news"
NAME == "News"
URL == "http://example.org/news"

Slugs == {SLUG, "nosuchpage"}

\* Body bytes: 1 is stable content, 2 is volatile content (an ad, a clock).

Bodies == {<<>>, <<1>>, <<2>>, <<1, 2>>}

Etags == {"W/1", "W/2"}
OptEtags == {None} \cup {Some(e) : e \in Etags}

\* uuid::Uuid::new_v4() draws at random: any value may come out.
Uuids == {"u1", "u2"}
NoUuid == "-"

NOT_MODIFIED == 304

\* delete_regex: absent, a pattern matching the volatile byte, or a pattern
\* that does not compile.
VolatileRegex == "\\x02"
BadRegex == "("
DeleteRegexes == {None, Some(VolatileRegex), Some(BadRegex)}

Config(i, c, r) == [check_interval |-> i, cooldown |-> c, delete_regex |-> r]

\* The timings with no delete_regex, and each delete_regex with one timing.
Configs ==
    { Config(t[1], t[2], None) : t \in {<<1, 0>>, <<2, 0>>, <<1, 2>>} }
    \cup { Config(1, 0, r) : r \in DeleteRegexes }

\* What request.send() and the reading of the body can yield.
TransportErrors == {"timeout", "connect"}

\* A transport failure; a 304 (no body); a 200 with any ETag and body; a 404
\* error page; a 200 whose body cannot be read to its end.
Responses ==
    { [kind |-> "transport", err |-> e, code |-> 0, etag |-> None, body |-> <<>>, readok |-> TRUE] :
        e \in TransportErrors }
    \cup
    { [kind |-> "http", err |-> "", code |-> NOT_MODIFIED, etag |-> t, body |-> <<>>, readok |-> TRUE] :
        t \in OptEtags }
    \cup
    { [kind |-> "http", err |-> "", code |-> 200, etag |-> t, body |-> b, readok |-> TRUE] :
        t \in OptEtags, b \in Bodies }
    \cup
    { [kind |-> "http", err |-> "", code |-> 404, etag |-> None, body |-> b, readok |-> TRUE] :
        b \in Bodies }
    \cup
    { [kind |-> "http", err |-> "", code |-> 200, etag |-> None, body |-> <<>>, readok |-> FALSE] }

----------------------------------------------------------------------------
\* enum PagefeedError and its Debug formatting, format!("{:?}", err).

PagefeedError(variant, detail) == [variant |-> variant, detail |-> detail]

DebugFmt(err) == err.variant \o "(" \o err.detail \o ")"

Ok(v) == [ok |-> TRUE, val |-> v, err |-> PagefeedError("", "")]
Err(e) == [ok |-> FALSE, val |-> 0, err |-> e]

----------------------------------------------------------------------------
\* enum PageStatus.

Unmodified == [tag |-> "Unmodified", body_hash |-> 0, etag |-> None, error |-> ""]
Modified(h, e) == [tag |-> "Modified", body_hash |-> h, etag |-> e, error |-> ""]
FetchError(m) == [tag |-> "FetchError", body_hash |-> 0, etag |-> None, error |-> m]

----------------------------------------------------------------------------
\* fn hash: read the body, delete what delete_regex matches, SHA3-256.

\* regex replace_all(&buf, b""): every match of the pattern is removed.
replace_all(pattern, buf) ==
    IF pattern = VolatileRegex THEN SelectSeq(buf, LAMBDA b : b # 2) ELSE buf

\* SHA3-256 of the buffer, taken as collision free: a number that determines
\* the buffer (its bytes as digits in base 3, below a leading 1).
RECURSIVE sha3(_)
sha3(buf) ==
    IF buf = <<>> THEN 1 ELSE 3 * sha3(SubSeq(buf, 1, Len(buf) - 1)) + buf[Len(buf)]

hash(c, resp) ==
    IF ~resp.readok THEN Err(PagefeedError("Io", "read"))
    ELSE IF IsSome(c.delete_regex) /\ Unwrap(c.delete_regex) = BadRegex
         THEN Err(PagefeedError("Regex", "Syntax"))
    ELSE IF IsSome(c.delete_regex)
         THEN Ok(sha3(replace_all(Unwrap(c.delete_regex), resp.body)))
    ELSE Ok(sha3(resp.body))

----------------------------------------------------------------------------
\* The row of a page that was never checked: every state column is null.

NewPage ==
    [ last_checked |-> None, last_modified |-> None, last_error |-> None,
      item_id |-> None, http_etag |-> None, http_body_hash |-> None ]

----------------------------------------------------------------------------
\* fn page_needs_checking. unwrap() of None panics.

page_needs_checking_earlier(p, c, t) ==
    IF IsNone(p.last_checked) THEN "true"
    ELSE IF IsNone(p.last_modified) THEN "panic"
    ELSE IF t >= Min(Unwrap(p.last_checked) + c.check_interval,
                     Unwrap(p.last_modified) + c.cooldown)
         THEN "true" ELSE "false"

\* A due check that forgets the cooldown.
page_needs_checking_interval_only(p, c, t) ==
    IF IsNone(p.last_checked) THEN "true"
    ELSE IF IsNone(p.last_modified) THEN "panic"
    ELSE IF t >= Unwrap(p.last_checked) + c.check_interval
         THEN "true" ELSE "false"

page_needs_checking(p, c, t) ==
    IF IsNone(p.last_checked) THEN "true"
    ELSE IF IsNone(p.last_modified) THEN "panic"
    ELSE IF t >= Max(Unwrap(p.last_checked) + c.check_interval,
                     Unwrap(p.last_modified) + c.cooldown)
         THEN "true" ELSE "false"

\* The request check_page builds: If-None-Match carries the stored etag.
build_request(p) == [url |-> URL, user_agent |-> "Mozilla/5.0", if_none_match |-> p.http_etag]

\* check_page, first half: send the request and classify the response.
fetch_status(p, c, resp) ==
    IF resp.kind = "transport" THEN FetchError(DebugFmt(PagefeedError("Reqwest", resp.err)))
    ELSE IF resp.code = NOT_MODIFIED THEN Unmodified
    ELSE LET h == hash(c, resp)
         IN  IF h.ok THEN Modified(h.val, resp.etag) ELSE FetchError(DebugFmt(h.err))

\* Variants of check_page that lack one of its two comparisons.
check_page_compares_no_error(p, c, resp) ==
    LET status == fetch_status(p, c, resp)
    IN  IF status.tag = "Modified" /\ Some(status.body_hash) = p.http_body_hash
            THEN Unmodified
        ELSE status

check_page_compares_no_hash(p, c, resp) ==
    LET status == fetch_status(p, c, resp)
    IN  IF status.tag = "FetchError" /\ Some(status.error) = p.last_error
            THEN Unmodified
        ELSE status

\* check_page: a body with the stored hash, or the stored error again, is Unmodified.
check_page(p, c, resp) ==
    LET status == fetch_status(p, c, resp)
    IN  IF status.tag = "Modified" /\ Some(status.body_hash) = p.http_body_hash
            THEN Unmodified
        ELSE IF status.tag = "FetchError" /\ Some(status.error) = p.last_error
            THEN Unmodified
        ELSE status

----------------------------------------------------------------------------
\* The three UPDATE statements; t is current_timestamp.

\* Variants of the UPDATE statements with one column more or less.
update_page_unchanged_modified(p, t) ==
    [p EXCEPT !.last_checked = Some(t), !.last_modified = Some(t)]

update_page_unchanged_clears_error(p, t) ==
    [p EXCEPT !.last_checked = Some(t), !.last_error = None]

update_page_error_not_checked(p, t, error, uuid) ==
    [p EXCEPT !.last_modified = Some(t),
              !.last_error = Some(error),
              !.item_id = Some(uuid),
              !.http_etag = None,
              !.http_body_hash = None]

update_page_error_keeps_etag(p, t, error, uuid) ==
    [p EXCEPT !.last_checked = Some(t),
              !.last_modified = Some(t),
              !.last_error = Some(error),
              !.item_id = Some(uuid),
              !.http_body_hash = None]

update_page_error_keeps_hash(p, t, error, uuid) ==
    [p EXCEPT !.last_checked = Some(t),
              !.last_modified = Some(t),
              !.last_error = Some(error),
              !.item_id = Some(uuid),
              !.http_etag = None]

update_page_changed_no_item_id(p, t, new_etag, new_hash, uuid) ==
    [p EXCEPT !.last_checked = Some(t),
              !.last_modified = Some(t),
              !.last_error = None,
              !.http_etag = new_etag,
              !.http_body_hash = Some(new_hash)]

update_page_unchanged(p, t) ==
    [p EXCEPT !.last_checked = Some(t)]

update_page_changed(p, t, new_etag, new_hash, uuid) ==
    [p EXCEPT !.last_checked = Some(t),
              !.last_modified = Some(t),
              !.last_error = None,
              !.item_id = Some(uuid),
              !.http_etag = new_etag,
              !.http_body_hash = Some(new_hash)]

update_page_error(p, t, error, uuid) ==
    [p EXCEPT !.last_checked = Some(t),
              !.last_modified = Some(t),
              !.last_error = Some(error),
              !.item_id = Some(uuid),
              !.http_etag = None,
              !.http_body_hash = None]

\* refresh_page, once the page is known to be due.
refresh_due(p, c, t, resp, uuid) ==
    LET status == check_page(p, c, resp)
    IN  IF status.tag = "Unmodified" THEN update_page_unchanged(p, t)
        ELSE IF status.tag = "Modified"
            THEN update_page_changed(p, t, status.etag, status.body_hash, uuid)
        ELSE update_page_error(p, t, status.error, uuid)

----------------------------------------------------------------------------
\* fn build_feed and fn describe_page_status.

\* A describe_page_status that never mentions the error.
describe_page_status_updated(p) == NAME \o " was updated."

describe_page_status(p) ==
    IF IsNone(p.last_error) THEN NAME \o " was updated."
    ELSE "Error while checking " \o NAME \o ": " \o Unwrap(p.last_error)

to_urn(uuid) == "urn:uuid:" \o uuid

\* A build_feed that gives a page without last_modified a placeholder entry.
build_feed_placeholder(p) ==
    IF IsSome(p.last_modified) /\ IsNone(p.item_id) THEN [panic |-> TRUE, items |-> <<>>]
    ELSE [panic |-> FALSE,
          items |-> << [ title |-> NAME,
                         description |-> describe_page_status(p),
                         link |-> URL,
                         pub_date |-> [rfc2822 |-> IF IsSome(p.last_modified)
                                                   THEN Unwrap(p.last_modified) ELSE 0],
                         guid |-> [value |-> IF IsSome(p.item_id)
                                             THEN to_urn(Unwrap(p.item_id))
                                             ELSE "empty:" \o NAME,
                                   permalink |-> FALSE] ] >>]

\* items of the channel, or a panic when item_id.unwrap() meets None.
build_feed(p) ==
    IF IsNone(p.last_modified) THEN [panic |-> FALSE, items |-> <<>>]
    ELSE IF IsNone(p.item_id) THEN [panic |-> TRUE, items |-> <<>>]
    ELSE [panic |-> FALSE,
          items |-> << [ title |-> NAME,
                         description |-> describe_page_status(p),
                         link |-> URL,
                         pub_date |-> [rfc2822 |-> Unwrap(p.last_modified)],
                         guid |-> [value |-> to_urn(Unwrap(p.item_id)), permalink |-> FALSE] ] >>]

----------------------------------------------------------------------------
\* History records.

NoResponse == [kind |-> "none", err |-> "", code |-> 0, etag |-> None, body |-> <<>>, readok |-> TRUE]
NoStatus == [tag |-> "none", body_hash |-> 0, etag |-> None, error |-> ""]
NoRequest == [url |-> "", user_agent |-> "", if_none_match |-> None]

NoLast ==
    [ kind |-> "none", at |-> 0, before |-> NewPage, due |-> "none",
      request |-> NoRequest, resp |-> NoResponse, raw |-> NoStatus, status |-> NoStatus,
      prevfail |-> None, prevgood |-> None, items |-> <<>>,
      sent |-> 0, failed |-> "none", out |-> <<>>, stderr |-> "" ]

\* The failure message of a raw status.
FailureOf(raw) == IF raw.tag = "FetchError" THEN Some(raw.error) ELSE None

\* update_page_changed and update_page_error draw a uuid; update_page_unchanged none.
Draws(status) == IF status.tag = "Unmodified" THEN {NoUuid} ELSE Uuids

\* The variables of the other specifications, at rest.
NoExtract == [called |-> FALSE]
NoTxns == <<>>
NoConc == [fetches |-> 0, ids |-> <<>>, remote |-> NoResponse]

----------------------------------------------------------------------------
Init ==
    /\ page = NewPage
    /\ cfg \in Configs
    /\ now = 0
    /\ last = NoLast
    /\ prev = None
    /\ good = None
    /\ ex = NoExtract
    /\ txn = NoTxns
    /\ conc = NoConc

\* Time passes between requests.
Tick ==
    /\ now < MaxTime
    /\ now' = now + 1
    /\ UNCHANGED <<page, cfg, last, prev, good, ex, txn, conc>>

\* The postgres calls of handle_feed_request that can return Err, in order:
\* before the page is read (connecting and opening the transaction, get_page)
\* and after the page was fetched.
EarlyFailures == {"connect", "get_page"}
LateFailures == {"update", "commit"}

\* main: an Err of handle_request is written to stderr with {:?}, then panic!.
ErrorReport(failed) == DebugFmt(PagefeedError("Postgres", failed))

\* What handle_feed_request writes to stdout. Every `?` on a postgres call
\* returns before the first out.write; build_feed comes before it too.
NotFoundOutput == <<"Status: 404 Not Found\n">>
FeedOutput(items) ==
    << "Content-Type: application/rss+xml\n\n",
       [title |-> NAME, link |-> URL, items |-> items] >>

\* A handler that writes the header before it knows the transaction succeeded.
handle_feed_output_header_first(failed, found, feed) ==
    IF failed # "none" THEN <<"Content-Type: application/rss+xml\n\n">>
    ELSE IF ~found THEN NotFoundOutput
    ELSE IF feed.panic THEN <<>>
    ELSE FeedOutput(feed.items)

handle_feed_output(failed, found, feed) ==
    IF failed # "none" THEN <<>>
    ELSE IF ~found THEN NotFoundOutput
    ELSE IF feed.panic THEN <<>>
    ELSE FeedOutput(feed.items)

NoFeed == [panic |-> FALSE, items |-> <<>>]

\* handle_feed_request ending in Err: the transaction is dropped (rolled back).
RequestFailed(failed, due, request, sent) ==
    /\ last' = [NoLast EXCEPT !.kind = "error", !.at = now, !.before = page,
                              !.due = due, !.request = request, !.sent = sent,
                              !.failed = failed,
                              !.out = handle_feed_output(failed, TRUE, NoFeed),
                              !.stderr = ErrorReport(failed)]
    /\ UNCHANGED <<page, prev, good>>

\* handle_feed_request for a slug that get_page does not find: 404.
FeedNotFound(slug) ==
    /\ slug # SLUG
    /\ \/ /\ last' = [NoLast EXCEPT !.kind = "notfound", !.at = now, !.before = page,
                                    !.out = handle_feed_output("none", FALSE, NoFeed)]
          /\ UNCHANGED <<page, prev, good>>
       \/ \E failed \in EarlyFailures \cup {"commit"} :
             RequestFailed(failed, "none", NoRequest, 0)
    /\ UNCHANGED <<cfg, now, ex, txn, conc>>

\* handle_feed_request for the page: get_page, refresh_page, commit, build_feed,
\* write. A panic in page_needs_checking unwinds out of fastcgi::run with the
\* transaction dropped (rolled back); build_feed runs after the commit.
FeedRequest(slug) ==
    /\ slug = SLUG
    /\ \/ \E failed \in EarlyFailures : RequestFailed(failed, "none", NoRequest, 0)
       \/ LET due == page_needs_checking(page, cfg, now)
          IN  CASE due = "panic" ->
                  /\ last' = [NoLast EXCEPT !.kind = "panic", !.at = now, !.before = page,
                                            !.due = due]
                  /\ UNCHANGED <<page, prev, good>>
             [] due = "false" ->
                  \/ RequestFailed("commit", due, NoRequest, 0)
                  \/ LET feed == build_feed(page)
                     IN  /\ last' = [NoLast EXCEPT
                                      !.kind = IF feed.panic THEN "panic" ELSE "feed",
                                      !.at = now, !.before = page, !.due = due,
                                      !.items = feed.items,
                                      !.out = handle_feed_output("none", TRUE, feed)]
                         /\ UNCHANGED <<page, prev, good>>
             [] due = "true" ->
                  \/ \E failed \in LateFailures :
                        RequestFailed(failed, due, build_request(page), 1)
                  \/ \E resp \in Responses :
                      \E uuid \in Draws(check_page(page, cfg, resp)) :
                          LET new == refresh_due(page, cfg, now, resp, uuid)
                              feed == build_feed(new)
                              raw == fetch_status(page, cfg, resp)
                              status == check_page(page, cfg, resp)
                          IN  /\ page' = new
                              /\ prev' = FailureOf(raw)
                              /\ good' = IF status.tag # "Modified" THEN good
                                         ELSE Some([hash |-> new.http_body_hash,
                                                    id |-> new.item_id])
                              /\ last' = [ kind |-> IF feed.panic THEN "panic" ELSE "feed",
                                           at |-> now, before |-> page, due |-> due,
                                           request |-> build_request(page),
                                           resp |-> resp,
                                           raw |-> raw,
                                           status |-> status,
                                           prevfail |-> prev,
                                           prevgood |-> good,
                                           items |-> feed.items,
                                           sent |-> 1, failed |-> "none",
                                           out |-> handle_feed_output("none", TRUE, feed),
                                           stderr |-> "" ]
    /\ UNCHANGED <<cfg, now, ex, txn, conc>>

Next ==
    \/ Tick
    \/ \E slug \in Slugs : FeedNotFound(slug)
    \/ \E slug \in Slugs : FeedRequest(slug)

Spec == Init /\ [][Next]_vars

----------------------------------------------------------------------------
\* extract.rs: the content extractor, a pure function of a PageConfig and a
\* document. The HTML parser, the selector engine and the jaq interpreter are
\* libraries: a document is given by what they yield on it.

MaxParts == 2       \* item elements of a document, and results of a filter

\* struct Item, enum ItemBody.
Text(str) == [kind |-> "Text", s |-> str]
Html(str) == [kind |-> "Html", s |-> str]
Item(body, title, url) == [body |-> body, title |-> title, url |-> url]

\* Result<Vec<Item>, Error>, or a panic.
ExtractOk(items) == [tag |-> "Ok", items |-> items, msg |-> ""]
ExtractErr(msg) == [tag |-> "Err", items |-> <<>>, msg |-> msg]
ExtractPanic(msg) == [tag |-> "panic", items |-> <<>>, msg |-> msg]

\* Selector strings: one that parses, one that does not.
GoodSelector == ".entry"
MalformedSelector == "[["
\* Selector::parse(sel.as_deref().unwrap_or(default)): the defaults parse.
selector_parses(sel) == sel # Some(MalformedSelector)

\* jaq programs: one that loads and compiles, one with a syntax error (load
\* fails), one that calls an undefined filter (compile fails).
GoodFilter == ".items[]"
UnparsableFilter == ".["
UncompilableFilter == "nosuchfilter"

PageConfig(mode, item, title, text, url, jaq) ==
    [ mode |-> mode, item_selector |-> item, title_selector |-> title,
      text_selector |-> text, url_selector |-> url, jaq |-> jaq ]

PageConfigs ==
    { PageConfig("Text", None, None, None, None, None) }
    \cup { PageConfig(m, i, None, None, None, None) :
             m \in {"Html", "MultiHtml"},
             i \in {None, Some(GoodSelector), Some(MalformedSelector)} }
    \cup { PageConfig("MultiHtml", None, Some(MalformedSelector), None, None, None),
           PageConfig("MultiHtml", None, None, Some(MalformedSelector), None, None),
           PageConfig("Html", None, None, None, Some(MalformedSelector), None) }
    \cup { PageConfig("Json", None, None, None, None, j) :
             j \in {None, Some(GoodFilter), Some(UnparsableFilter), Some(UncompilableFilter)} }

\* An item element, as the selectors see it: the text of its first title
\* element (if any), the inner HTML of its body element, and the href and src
\* attributes of its link element.
Elements ==
    { [title |-> t, html |-> h, href |-> l[1], src |-> l[2]] :
        t \in {None, Some(""), Some("T")},
        h \in {"<p>a</p>", "<p>b</p>"},
        l \in { <<None, None>>, <<Some(""), Some("/i.png")>>,
                <<Some("/x"), None>>, <<None, Some("/i.png")>> } }

\* A value the filter yields: an evaluation error, or a value whose text,
\* title and url keys hold a string or not.
FilterResults ==
    { [ok |-> FALSE, text |-> None, title |-> None, url |-> None],
      [ok |-> TRUE, text |-> None, title |-> Some("T"), url |-> None],
      [ok |-> TRUE, text |-> Some("x"), title |-> None, url |-> None],
      [ok |-> TRUE, text |-> Some("y"), title |-> Some("T"), url |-> Some("/u")] }

\* The sequences over S of length at most n.
SeqsUpTo(S, n) == UNION { [1..k -> S] : k \in 0..n }

\* Documents: markup with up to MaxParts item elements; JSON text on which the
\* filter yields up to MaxParts values; text that is not JSON.
Documents ==
    { [raw |-> "<html>", elements |-> els, json_ok |-> FALSE, outs |-> <<>>] :
        els \in SeqsUpTo(Elements, MaxParts) }
    \cup
    { [raw |-> "{json}",
       elements |-> << [title |-> None, html |-> "{json}", href |-> None, src |-> None] >>,
       json_ok |-> TRUE, outs |-> outs] :
        outs \in SeqsUpTo(FilterResults, MaxParts) }

\* Option::or.
OptionOr(a, b) == IF IsSome(a) THEN a ELSE b

extract_text(pc, doc) == ExtractOk(<< Item(Text(doc.raw), None, None) >>)

\* The four Selector::parse(..).expect(..) calls, then one Item per element.
extract_multihtml(pc, doc) ==
    IF ~selector_parses(pc.item_selector) THEN ExtractPanic("invalid item_selector")
    ELSE IF ~selector_parses(pc.title_selector) THEN ExtractPanic("invalid title_selector")
    ELSE IF ~selector_parses(pc.text_selector) THEN ExtractPanic("invalid text_selector")
    ELSE IF ~selector_parses(pc.url_selector) THEN ExtractPanic("invalid url_selector")
    ELSE ExtractOk([ i \in 1..Len(doc.elements) |->
                        LET el == doc.elements[i]
                        IN  Item(Html(el.html), el.title, OptionOr(el.href, el.src)) ])

\* The loop of extract_singlehtml over the parts from index i on.
RECURSIVE join_parts(_, _, _)
join_parts(parts, i, acc) ==
    IF i > Len(parts) THEN acc
    ELSE join_parts(parts, i + 1,
            [ body |-> IF parts[i].body.kind = "Html" THEN acc.body \o parts[i].body.s
                       ELSE acc.body,
              title |-> OptionOr(acc.title, parts[i].title),
              url |-> OptionOr(acc.url, parts[i].url) ])

\* A loop in which a later part overwrites the title and the link.
RECURSIVE join_parts_last_wins(_, _, _)
join_parts_last_wins(parts, i, acc) ==
    IF i > Len(parts) THEN acc
    ELSE join_parts_last_wins(parts, i + 1,
            [ body |-> IF parts[i].body.kind = "Html" THEN acc.body \o parts[i].body.s
                       ELSE acc.body,
              title |-> OptionOr(parts[i].title, acc.title),
              url |-> OptionOr(parts[i].url, acc.url) ])

extract_singlehtml_last_wins(pc, doc) ==
    LET parts == extract_multihtml(pc, doc)
    IN  IF parts.tag # "Ok" THEN parts
        ELSE IF parts.items = <<>> THEN ExtractOk(<<>>)
        ELSE LET acc == join_parts_last_wins(parts.items, 1,
                                             [body |-> "", title |-> None, url |-> None])
             IN  ExtractOk(<< Item(Html(acc.body), acc.title, acc.url) >>)

extract_singlehtml(pc, doc) ==
    LET parts == extract_multihtml(pc, doc)
    IN  IF parts.tag # "Ok" THEN parts
        ELSE IF parts.items = <<>> THEN ExtractOk(<<>>)
        ELSE LET acc == join_parts(parts.items, 1, [body |-> "", title |-> None, url |-> None])
             IN  ExtractOk(<< Item(Html(acc.body), acc.title, acc.url) >>)

JAQ_TAKE == 100
Take(q, n) == SubSeq(q, 1, Min(Len(q), n))

\* run_jaq: load(..).unwrap(), compile(..).unwrap(), then at most 100 results.
run_jaq(source, doc) ==
    IF source = UnparsableFilter THEN ExtractPanic("load")
    ELSE IF source = UncompilableFilter THEN ExtractPanic("compile")
    ELSE ExtractOk(Take(doc.outs, JAQ_TAKE))

\* The default program {"text": tostring} yields one value with a text.
DefaultFilterResult == [ok |-> TRUE, text |-> Some("{json}"), title |-> None, url |-> None]

\* The loop of extract_json over the results from index i on.
RECURSIVE json_items(_, _, _)
json_items(outs, i, acc) ==
    IF i > Len(outs) THEN ExtractOk(acc)
    ELSE IF ~outs[i].ok THEN ExtractErr("filter error")
    ELSE IF IsNone(outs[i].text) THEN ExtractErr("text key missing")
    ELSE json_items(outs, i + 1,
            Append(acc, Item(Html(Unwrap(outs[i].text)), outs[i].title, outs[i].url)))

extract_json(pc, doc) ==
    IF ~doc.json_ok THEN ExtractErr("json")
    ELSE LET out == IF IsNone(pc.jaq) THEN ExtractOk(<<DefaultFilterResult>>)
                    ELSE run_jaq(Unwrap(pc.jaq), doc)
         IN  IF out.tag # "Ok" THEN out ELSE json_items(out.items, 1, <<>>)

extract(pc, doc) ==
    CASE pc.mode = "Text" -> extract_text(pc, doc)
      [] pc.mode = "Html" -> extract_singlehtml(pc, doc)
      [] pc.mode = "MultiHtml" -> extract_multihtml(pc, doc)
      [] pc.mode = "Json" -> extract_json(pc, doc)

\* A call of extract, on inputs of the caller's choice.
Extract(pc, doc) ==
    /\ ex' = [called |-> TRUE, pc |-> pc, doc |-> doc, result |-> extract(pc, doc)]
    /\ UNCHANGED <<page, cfg, now, last, prev, good, txn, conc>>

InitExtract ==
    /\ page = NewPage
    /\ cfg = Config(1, 0, None)
    /\ now = 0
    /\ last = NoLast
    /\ prev = None
    /\ good = None
    /\ ex = NoExtract
    /\ txn = NoTxns
    /\ conc = NoConc

\* One call in a behaviour: extract keeps no state between calls.
NextExtract == ~ex.called /\ \E pc \in PageConfigs, doc \in Documents : Extract(pc, doc)

SpecExtract == InitExtract /\ [][NextExtract]_vars

----------------------------------------------------------------------------
\* Two feed requests for the page handled at the same time, each by its own
\* process with its own connection and transaction (postgres default: READ
\* COMMITTED). get_page is a plain SELECT and takes no lock; an UPDATE of the
\* row waits for an uncommitted UPDATE of another transaction, then writes its
\* columns into the row as committed by then.

Procs == {1, 2}

IdleTxn == [pc |-> "idle", ts |-> 0, snap |-> NewPage, status |-> NoStatus, pending |-> NewPage]

\* The row is locked by the uncommitted UPDATE of another transaction.
RowLocked(p) == \E q \in Procs \ {p} : txn[q].pc = "updated"

\* conn.transaction() and get_page: the transaction reads the committed row.
ConcBegin(p) ==
    /\ txn[p].pc = "idle"
    /\ txn' = [txn EXCEPT ![p] = [IdleTxn EXCEPT !.pc = "read", !.ts = now, !.snap = page]]
    /\ UNCHANGED <<page, cfg, now, last, prev, good, ex, conc>>

\* refresh_page up to the UPDATE: the due check and check_page on the row read.
ConcFetch(p) ==
    /\ txn[p].pc = "read"
    /\ LET due == page_needs_checking(txn[p].snap, cfg, now)
       IN  CASE due = "panic" ->
                  /\ txn' = [txn EXCEPT ![p].pc = "done"]
                  /\ UNCHANGED conc
             [] due = "false" ->
                  /\ txn' = [txn EXCEPT ![p].pc = "notdue"]
                  /\ UNCHANGED conc
             [] due = "true" ->
                  /\ txn' = [txn EXCEPT ![p].pc = "fetched",
                                        ![p].status = check_page(txn[p].snap, cfg, conc.remote)]
                  /\ conc' = [conc EXCEPT !.fetches = @ + 1]
    /\ UNCHANGED <<page, cfg, now, last, prev, good, ex>>

\* The UPDATE of update_page_unchanged, update_page_changed or update_page_error.
ConcUpdate(p) ==
    /\ txn[p].pc = "fetched"
    /\ ~RowLocked(p)
    /\ \E uuid \in Draws(txn[p].status) :
          LET status == txn[p].status
              new == IF status.tag = "Unmodified" THEN update_page_unchanged(page, txn[p].ts)
                     ELSE IF status.tag = "Modified"
                         THEN update_page_changed(page, txn[p].ts, status.etag,
                                                  status.body_hash, uuid)
                     ELSE update_page_error(page, txn[p].ts, status.error, uuid)
          IN  /\ txn' = [txn EXCEPT ![p].pc = "updated", ![p].pending = new]
              /\ conc' = IF status.tag = "Unmodified" THEN conc
                         ELSE [conc EXCEPT !.ids = Append(@, uuid)]
    /\ UNCHANGED <<page, cfg, now, last, prev, good, ex>>

\* trans.commit().
ConcCommit(p) ==
    /\ txn[p].pc \in {"updated", "notdue"}
    /\ page' = IF txn[p].pc = "updated" THEN txn[p].pending ELSE page
    /\ txn' = [txn EXCEPT ![p].pc = "done"]
    /\ UNCHANGED <<cfg, now, last, prev, good, ex, conc>>

\* A page never checked, or a page that changed at time 0 and is looked at
\* again at time 1; the remote content is the same for both requests.
InitConc ==
    /\ cfg \in Configs
    /\ \/ page = NewPage /\ now = 0
       \/ /\ page = update_page_changed(NewPage, 0, Some("W/1"), sha3(<<1>>), "u1")
          /\ now = 1
    /\ last = NoLast
    /\ prev = None
    /\ good = None
    /\ ex = NoExtract
    /\ txn = [p \in Procs |-> IdleTxn]
    /\ conc \in { [NoConc EXCEPT !.remote = r] : r \in Responses }

NextConc ==
    \E p \in Procs : ConcBegin(p) \/ ConcFetch(p) \/ ConcUpdate(p) \/ ConcCommit(p)

SpecConc == InitConc /\ [][NextConc]_vars

----------------------------------------------------------------------------
\* Properties. `last` describes the most recent feed request: the page before
\* it (last.before), the clock (last.at), and, when the page was due, the
\* response, its raw classification (last.raw) and check_page's result
\* (last.status). `page` is the row after it.

\* The most recent request refreshed a due page and committed.
Refreshed == last.kind = "feed" /\ last.due = "true"

\* The response was a 304, or a body whose hash is the stored one.
SameContent ==
    \/ last.raw.tag = "Unmodified"
    \/ /\ last.raw.tag = "Modified"
       /\ Some(last.raw.body_hash) = last.before.http_body_hash

\* C1: a refresh that gets a 304, or a body whose hash equals the stored hash,
\* leaves last_modified, the stored hash and item_id as they were.
C1_Idempotence ==
    (Refreshed /\ SameContent) =>
        /\ page.last_modified = last.before.last_modified
        /\ page.http_body_hash = last.before.http_body_hash
        /\ page.item_id = last.before.item_id

\* C1 witness: a later refresh of a page with stored content met the same hash.
C1_Witness ==
    /\ Refreshed
    /\ last.raw.tag = "Modified"
    /\ Some(last.raw.body_hash) = last.before.http_body_hash
    /\ IsSome(last.before.last_checked)
    /\ last.at > Unwrap(last.before.last_checked)

\* The refresh failed with the message the due refresh before it failed with.
RepeatedFailure ==
    /\ Refreshed
    /\ last.raw.tag = "FetchError"
    /\ last.prevfail = Some(last.raw.error)

\* C2: a due refresh that fails with the same message as the due refresh right
\* before it leaves last_modified and item_id unchanged and sets last_checked
\* to the time of the refresh.
C2_ErrorDedup ==
    RepeatedFailure =>
        /\ page.last_modified = last.before.last_modified
        /\ page.item_id = last.before.item_id
        /\ page.last_checked = Some(last.at)

\* C2 witness: the second of two identical failures, at a later time.
C2_Witness ==
    /\ RepeatedFailure
    /\ IsSome(last.before.last_checked)
    /\ last.at > Unwrap(last.before.last_checked)
    /\ page.last_modified = last.before.last_modified

\* C3: last_modified <= last_checked whenever both are set.
C3_ModifiedNotAfterChecked ==
    (IsSome(page.last_modified) /\ IsSome(page.last_checked)) =>
        Unwrap(page.last_modified) <= Unwrap(page.last_checked)

\* C3 witness: after a change, a later refresh moved last_checked alone.
C3_Witness ==
    /\ Refreshed
    /\ IsSome(page.last_modified)
    /\ IsSome(page.last_checked)
    /\ Unwrap(page.last_modified) < Unwrap(page.last_checked)

\* The later of last_checked + check_interval and last_modified + cooldown,
\* for a row that has both timestamps.
Threshold(p) ==
    Max(Unwrap(p.last_checked) + cfg.check_interval,
        Unwrap(p.last_modified) + cfg.cooldown)

BothSet(p) == IsSome(p.last_checked) /\ IsSome(p.last_modified)

\* The due check of the most recent request returned (true or false).
DueChecked == last.kind \in {"feed", "panic"} /\ last.due \in {"true", "false"}

\* C4 as stated: due exactly when never checked or now is strictly later than
\* the threshold.
C4_DueStrictlyAfter ==
    DueChecked =>
        ( last.due = "true" <=>
            \/ IsNone(last.before.last_checked)
            \/ BothSet(last.before) /\ last.at > Threshold(last.before) )

\* C4 amended: the due check returns true exactly when the page was never
\* checked or now is at or after the threshold; it returns false whenever now
\* is before last_modified + cooldown.
C4_DueAtOrAfter ==
    /\ last.kind \in {"feed", "panic"} =>
        ( last.due = "true" <=>
            \/ IsNone(last.before.last_checked)
            \/ BothSet(last.before) /\ last.at >= Threshold(last.before) )
    /\ ( /\ last.kind \in {"feed", "panic"}
         /\ BothSet(last.before)
         /\ last.at < Unwrap(last.before.last_modified) + cfg.cooldown )
        => last.due = "false"

\* C4 witness: a page found due at the very instant of its threshold.
C4_Witness ==
    /\ last.kind = "feed"
    /\ last.due = "true"
    /\ BothSet(last.before)
    /\ last.at = Threshold(last.before)

\* C5: a row with last_error set has no http_etag.
C5_ErrorClearsEtag ==
    IsSome(page.last_error) => IsNone(page.http_etag)

\* C5 witness: a failure was recorded on a page that held an etag.
C5_Witness ==
    /\ Refreshed
    /\ last.status.tag = "FetchError"
    /\ IsSome(last.before.http_etag)
    /\ IsSome(page.last_error)

\* The refresh recorded a failure (update_page_error ran).
NewFailure == Refreshed /\ last.status.tag = "FetchError"

C7_UnchangedClearsError ==
    (Refreshed /\ SameContent) =>
        /\ IsNone(page.last_error)
        /\ page.last_checked = Some(last.at)

\* C7 amended: after a 304 or an equal body, last_checked is the time of the
\* refresh and last_error is what it was before.
C7_UnchangedKeepsError ==
    (Refreshed /\ SameContent) =>
        /\ page.last_error = last.before.last_error
        /\ page.last_checked = Some(last.at)

\* C7 witness: a 304 met a page that was in an error state.
C7_Witness ==
    /\ Refreshed
    /\ last.raw.tag = "Unmodified"
    /\ IsSome(last.before.last_error)
    /\ page.last_checked = Some(last.at)

\* C8: a response whose status is neither 304 nor 2xx is a FetchError with
\* message "HTTP status <code>", and is never taken as Modified.
C8_HttpFailureIsError ==
    ( /\ Refreshed
      /\ last.resp.kind = "http"
      /\ last.resp.code # NOT_MODIFIED
      /\ ~(last.resp.code \in 200..299) )
    => /\ last.raw = FetchError("HTTP status " \o ToString(last.resp.code))
       /\ last.status.tag # "Modified"

\* The page came back to content it carried before a failure cleared it.
ContentAgain ==
    /\ Refreshed
    /\ last.status.tag = "Modified"
    /\ IsSome(last.prevgood)
    /\ Unwrap(last.prevgood).hash = Some(last.status.body_hash)

\* C9 as stated: the identifier is a function of the content, so content seen
\* again carries the identifier it carried before.
C9_IdentifierOfContent ==
    ContentAgain => page.item_id = Unwrap(last.prevgood).id

\* C9 amended: the identifier is drawn anew by every refresh that records a
\* change or a new failure; it changes only when the stored hash or the stored
\* error changes too.
C9_IdentifierPerChange ==
    (Refreshed /\ page.item_id # last.before.item_id) =>
        /\ last.status.tag \in {"Modified", "FetchError"}
        /\ \/ page.http_body_hash # last.before.http_body_hash
           \/ page.last_error # last.before.last_error

\* C9 witness: content A, a failure, content A again under a new identifier.
C9_Witness ==
    /\ ContentAgain
    /\ IsSome(last.before.last_error)
    /\ page.item_id # Unwrap(last.prevgood).id

\* The feed of the most recent request.
FeedBuilt == last.kind = "feed"

C11_EtagCaptured ==
    ( /\ Refreshed
      /\ last.resp.kind = "http"
      /\ last.resp.code \in 200..299
      /\ IsSome(last.resp.etag)
      /\ last.raw.tag = "Modified" )
    => build_request(page).if_none_match = last.resp.etag

\* The due condition of the code, on a row and a time.
DueNow(p, t) == IsNone(p.last_checked) \/ (BothSet(p) /\ t >= Threshold(p))
NotDueNow(p, t) == BothSet(p) /\ t < Threshold(p)

\* C12: a request for a due page sends exactly one HTTP request; a request for
\* a page that is not due sends none and leaves the row as it was.
C12_OneRequestIfDue ==
    last.due \in {"true", "false"} =>
        /\ DueNow(last.before, last.at) =>
              /\ last.sent = 1
              /\ last.request = build_request(last.before)
        /\ NotDueNow(last.before, last.at) =>
              /\ last.sent = 0
              /\ last.request = NoRequest
              /\ page = last.before

\* C12 witness: a feed served for a page inside its cooldown, with no request.
C12_Witness ==
    /\ last.kind = "feed"
    /\ last.due = "false"
    /\ last.sent = 0
    /\ BothSet(last.before)
    /\ last.at >= Unwrap(last.before.last_checked) + cfg.check_interval
    /\ page = last.before

\* The response of the most recent refresh was a failure: of the transport, of
\* the HTTP status, or of reading and normalizing the body.
ResponseFailed ==
    /\ last.due = "true"
    /\ last.failed = "none"
    /\ \/ last.resp.kind = "transport"
       \/ /\ last.resp.kind = "http"
          /\ last.resp.code # NOT_MODIFIED
          /\ \/ ~(last.resp.code \in 200..299)
             \/ ~last.resp.readok
             \/ cfg.delete_regex = Some(BadRegex)

\* C13: a failed response never aborts the request: the row ends with an error
\* message in last_error (the message of the failure) and the feed is written.
C13_FailureIsLocal ==
    ResponseFailed =>
        /\ last.kind = "feed"
        /\ IsSome(page.last_error)
        /\ last.raw.tag = "FetchError"
        /\ page.last_error = Some(last.raw.error)
        /\ last.out = FeedOutput(last.items)

\* C15: a request in which a postgres call failed writes nothing to stdout and
\* leaves the row as it was; whatever is written follows a successful commit.
C15_NoOutputOnFailure ==
    /\ last.failed # "none" =>
          /\ last.kind = "error"
          /\ last.out = <<>>
          /\ page = last.before
    /\ last.out # <<>> => last.failed = "none"

\* C15 witness: the page was fetched, then the commit failed.
C15_Witness ==
    /\ last.kind = "error"
    /\ last.failed = "commit"
    /\ last.sent = 1
    /\ last.out = <<>>

\* C16 as stated: with an error set, the first entry is titled "Error", links
\* to the page and has the error text as its body.
C16_ErrorEntry ==
    (FeedBuilt /\ IsSome(page.last_error)) =>
        /\ Len(last.items) >= 1
        /\ last.items[1].title = "Error"
        /\ last.items[1].link = URL
        /\ last.items[1].description = Unwrap(page.last_error)

\* C16 amended: with an error set, the feed's single entry is titled with the
\* page name, links to the page and reads "Error while checking <name>: <error>".
C16_ErrorInDescription ==
    (FeedBuilt /\ IsSome(page.last_error)) =>
        /\ Len(last.items) = 1
        /\ last.items[1].title = NAME
        /\ last.items[1].link = URL
        /\ last.items[1].description =
              "Error while checking " \o NAME \o ": " \o Unwrap(page.last_error)

\* C16 witness: a feed served from the stored row of a page in an error state.
C16_Witness ==
    /\ FeedBuilt
    /\ last.due = "false"
    /\ IsSome(page.last_error)
    /\ Len(last.items) = 1

\* C18: last_checked set implies last_modified set, and the due check never
\* panics.
C18_CheckedImpliesModified ==
    /\ IsSome(page.last_checked) => IsSome(page.last_modified)
    /\ last.due # "panic"

\* C19: last_modified set implies item_id set, and build_feed never panics (a
\* panic comes from the due check alone).
C19_ModifiedImpliesItemId ==
    /\ IsSome(page.last_modified) => IsSome(page.item_id)
    /\ last.kind = "panic" => last.due = "panic"

\* C19 witness: a feed entry built right after a change was recorded.
C19_Witness ==
    /\ Refreshed
    /\ last.status.tag = "Modified"
    /\ IsSome(page.last_modified)
    /\ Len(last.items) = 1
    /\ last.items[1].guid.value = to_urn(Unwrap(page.item_id))

\* C14 (under SpecExtract): extract returns Ok or Err for every configuration
\* and document; it never panics.
C14_ExtractNeverPanics ==
    ex.called => ex.result.tag \in {"Ok", "Err"}

\* A call of the single-markup mode that got past the selectors, on a document
\* with at least one item element.
SingleMarkup ==
    /\ ex.called
    /\ ex.pc.mode = "Html"
    /\ ex.result.tag = "Ok"
    /\ ex.doc.elements # <<>>

\* The fragments of the document: body, title and link of each item element.
FragmentBody(i) == ex.doc.elements[i].html
FragmentTitle(i) == ex.doc.elements[i].title
FragmentLink(i) ==
    IF IsSome(ex.doc.elements[i].href) THEN ex.doc.elements[i].href
    ELSE ex.doc.elements[i].src

RECURSIVE ConcatBodies(_)
ConcatBodies(n) == IF n = 0 THEN "" ELSE ConcatBodies(n - 1) \o FragmentBody(n)

\* The value of the first fragment whose value satisfies Wins, or None.
FirstThat(Value(_), Wins(_)) ==
    LET n == Len(ex.doc.elements)
        winners == { i \in 1..n : Wins(Value(i)) }
    IN  IF winners = {} THEN None
        ELSE Value(CHOOSE i \in winners : \A j \in winners : i <= j)

Present(o) == IsSome(o)
NonEmpty(o) == IsSome(o) /\ Unwrap(o) # ""

\* C17 as stated (under SpecExtract): one Item whose body is the concatenation
\* of the fragment bodies, whose title is the first non-empty title and whose
\* link is the first non-empty link; a zero-length value does not win.
C17_FirstNonEmptyWins ==
    SingleMarkup =>
        /\ Len(ex.result.items) = 1
        /\ ex.result.items[1].body = Html(ConcatBodies(Len(ex.doc.elements)))
        /\ ex.result.items[1].title = FirstThat(FragmentTitle, NonEmpty)
        /\ ex.result.items[1].url = FirstThat(FragmentLink, NonEmpty)

\* C17 amended (under SpecExtract): for at least one fragment, one Item whose
\* body is the concatenation of the fragment bodies, whose title is the first
\* title present and whose link is the first link present, zero-length or not;
\* for no fragment, no Item.
C17_FirstPresentWins ==
    /\ SingleMarkup =>
          /\ Len(ex.result.items) = 1
          /\ ex.result.items[1].body = Html(ConcatBodies(Len(ex.doc.elements)))
          /\ ex.result.items[1].title = FirstThat(FragmentTitle, Present)
          /\ ex.result.items[1].url = FirstThat(FragmentLink, Present)
    /\ (ex.called /\ ex.pc.mode = "Html" /\ ex.result.tag = "Ok" /\ ex.doc.elements = <<>>)
          => ex.result.items = <<>>

\* C17 witness: two fragments, the first with a zero-length title, the second
\* with a title of its own.
C17_Witness ==
    /\ SingleMarkup
    /\ Len(ex.doc.elements) = 2
    /\ FragmentTitle(1) = Some("")
    /\ FragmentTitle(2) = Some("T")
    /\ FragmentBody(1) # FragmentBody(2)
    /\ ex.result.items[1].title = Some("")

\* C20 (under SpecConc): two concurrent requests for a due page fetch it at
\* most once and assign last_modified and item_id at most once.
C20_OneFetchOneAssignment ==
    /\ conc.fetches <= 1
    /\ Len(conc.ids) <= 1

====
